---- MODULE Spec2Model ----
(***************************************************************************)
(* A model of two QCoDeS instrument drivers:                               *)
(*   - Keithley_3706A.py : the Keithley 3706A system switch (specifier     *)
(*     validation and the channel operations), specification Spec;         *)
(*   - Rigol_DS4000.py   : the waveform capture of the Rigol DS4000 scope  *)
(*     (ScopeArray.prepare_curvedata / get_raw), specification SpecScope,  *)
(*     and its block framing alone, specification SpecBlock.               *)
(* A Python str is a sequence of one-character strings, a Python bytes a   *)
(* sequence of integers 0..255, so that split, strip, join and the header  *)
(* parse are computed and not assumed.                                     *)
(***************************************************************************)
EXTENDS Integers, Sequences, FiniteSets, TLC

VARIABLES
  cards,       \* the switch: slot -> what slot[i].idn / rows / columns answer
  interlock,   \* the switch: slot -> what slot[i].interlock.state answers
  forbidden,   \* the switch: what channel.getforbidden('allslots') answers
  call,        \* the last Keithley3706A call: operation, arguments, outcome
  trace_ready, \* the scope: ScopeArray.trace_ready of each parameter
  preamble,    \* the scope: ScopeArray.preamble of each parameter
  shape,       \* the scope: ScopeArray.shape[0] of each parameter
  wmode,       \* the scope: the waveform mode last written to the instrument
  prepared,    \* history: a prepare_curvedata completed since the last get_raw
  fetched,     \* history: the preamble answer of the last completed prepare_curvedata
  g,           \* the scope: the ScopeArray call in progress or just ended
  blk          \* _validate_strip_block alone: its input and its result

kvars == <<cards, interlock, forbidden, call>>
svars == <<trace_ready, preamble, shape, wmode, prepared, fetched, g>>

(***************************************************************************)
(* Python strings                                                          *)
(***************************************************************************)
Chr == <<"0", "1", "2", "3", "4", "5", "6", "7", "8", "9">>

\* str(n) for a natural number n
RECURSIVE str(_)
str(n) == IF n < 10 THEN <<Chr[n + 1]>> ELSE str(n \div 10) \o <<Chr[(n % 10) + 1]>>

\* the index of the first sep in s, 0 when there is none
RECURSIVE Find(_, _, _)
Find(s, sep, i) ==
  IF i > Len(s) THEN 0 ELSE IF s[i] = sep THEN i ELSE Find(s, sep, i + 1)

\* s.split(sep) for a one-character separator
RECURSIVE Split(_, _)
Split(s, sep) ==
  LET k == Find(s, sep, 1)
  IN IF k = 0 THEN <<s>>
     ELSE <<SubSeq(s, 1, k - 1)>> \o Split(SubSeq(s, k + 1, Len(s)), sep)

\* sep.join(parts)
RECURSIVE Join(_, _)
Join(parts, sep) ==
  IF Len(parts) = 0 THEN <<>>
  ELSE IF Len(parts) = 1 THEN parts[1]
  ELSE parts[1] \o <<sep>> \o Join(Tail(parts), sep)

\* the concatenation of a sequence of sequences
RECURSIVE Flatten(_)
Flatten(ss) == IF Len(ss) = 0 THEN <<>> ELSE ss[1] \o Flatten(Tail(ss))

Range(s) == {s[i] : i \in 1..Len(s)}

s_allslots == <<"a", "l", "l", "s", "l", "o", "t", "s">>
s_slot == <<"s", "l", "o", "t">>
s_empty == <<>>

(***************************************************************************)
(* Keithley 3706A: the instrument's answers                                *)
(***************************************************************************)
\* get_switch_cards asks slot[1] .. slot[6]
NumSlots == 6

EmptySlot == [idn |-> "Empty Slot", rows |-> 0, cols |-> 0]

\* the answer of print(slot[i].idn)
slot_idn(i) == cards[i].idn

\* a query and a write as the instrument sees them
Ask(cmd, arg) == <<"ask", cmd, arg>>
Write(cmd, arg) == <<"write", cmd, arg>>

(***************************************************************************)
(* Keithley 3706A: inventory helpers.  X is the value a helper returns,    *)
(* X_io the queries it sends, in order.                                    *)
(***************************************************************************)
get_switch_cards_io == [i \in 1..NumSlots |-> Ask("slot.idn", i)]

\* the installed cards, by ascending slot: their slot_no as a string
get_switch_cards ==
  LET F[i \in 0..NumSlots] ==
        IF i = 0 THEN <<>>
        ELSE IF slot_idn(i) # "Empty Slot"
             THEN Append(F[i - 1], [slot_no |-> str(i), n |-> i])
             ELSE F[i - 1]
  IN F[NumSlots]

_get_slot_ids_io == get_switch_cards_io

_get_slot_ids ==
  LET cards_ == get_switch_cards
  IN [k \in 1..Len(cards_) |-> cards_[k].slot_no]

\* the slot ids as numbers, for the slot[i] queries
SlotNo(id) == CHOOSE i \in 1..NumSlots : str(i) = id

_get_slot_names_io == _get_slot_ids_io

_get_slot_names ==
  LET slot_id == _get_slot_ids
  IN [k \in 1..Len(slot_id) |-> s_slot \o slot_id[k]]

_get_number_of_rows_io ==
  LET slot_id == _get_slot_ids
  IN _get_slot_ids_io \o
     [k \in 1..Len(slot_id) |-> Ask("slot.rows.matrix", SlotNo(slot_id[k]))]

_get_number_of_rows ==
  LET slot_id == _get_slot_ids
  IN [k \in 1..Len(slot_id) |-> cards[SlotNo(slot_id[k])].rows]

_get_number_of_columns_io ==
  LET slot_id == _get_slot_ids
  IN _get_slot_ids_io \o
     [k \in 1..Len(slot_id) |-> Ask("slot.columns.matrix", SlotNo(slot_id[k]))]

_get_number_of_columns ==
  LET slot_id == _get_slot_ids
  IN [k \in 1..Len(slot_id) |-> cards[SlotNo(slot_id[k])].cols]

_get_rows_io == _get_number_of_rows_io

_get_rows ==
  LET total_number_of_rows == _get_number_of_rows
  IN [k \in 1..Len(total_number_of_rows) |->
        [i \in 1..total_number_of_rows[k] |-> str(i)]]

_get_columns_io == _get_number_of_columns_io

\* two digits, zero padded
Col2(i) == IF i < 10 THEN <<"0">> \o str(i) ELSE str(i)

_get_columns ==
  LET total_number_of_columns == _get_number_of_columns
  IN [k \in 1..Len(total_number_of_columns) |->
        [i \in 1..total_number_of_columns[k] |-> Col2(i)]]

\* itertools.product(slot, rows, columns), each element joined: row-major order
Product3(slot, rows, columns) ==
  LET nc == Len(columns)
  IN [j \in 1..(Len(rows) * nc) |->
        slot \o rows[((j - 1) \div nc) + 1] \o columns[((j - 1) % nc) + 1]]

get_channels_io == _get_slot_ids_io \o _get_rows_io \o _get_columns_io

get_channels ==
  LET slot_id == _get_slot_ids
      row_list == _get_rows
      column_list == _get_columns
  IN Flatten([k \in 1..Len(slot_id) |->
                Product3(slot_id[k], row_list[k], column_list[k])])

SlotInstalled(slot_no) == str(slot_no) \in Range(_get_slot_ids)

get_channels_by_slot_io(slot_no) ==
  _get_slot_ids_io \o
  (IF SlotInstalled(slot_no) THEN _get_rows_io \o _get_columns_io ELSE <<>>)

\* raises Keithley3706AUnknownOrEmptySlot for a slot that is not installed;
\* otherwise the product with row_list[0] and column_list[0]
get_channels_by_slot_raises(slot_no) == ~SlotInstalled(slot_no)

get_channels_by_slot(slot_no) ==
  LET row_list == _get_rows
      column_list == _get_columns
  IN Product3(str(slot_no), row_list[1], column_list[1])

\* itertools.combinations(channel, 2), each pair joined by ":"
Combinations2(channel) ==
  Flatten([a \in 1..Len(channel) |->
             [d \in 1..(Len(channel) - a) |-> channel[a] \o <<":">> \o channel[a + d]]])

_get_channel_ranges_io ==
  LET slot_id == _get_slot_ids
  IN _get_slot_ids_io \o
     Flatten([k \in 1..Len(slot_id) |-> get_channels_by_slot_io(SlotNo(slot_id[k]))])

_get_channel_ranges ==
  LET slot_id == _get_slot_ids
  IN Flatten([k \in 1..Len(slot_id) |->
                Combinations2(get_channels_by_slot(SlotNo(slot_id[k])))])

backplane_common_number == <<"9">>

\* a relay list that goes one number too far
backplane_relay_common_numbers_to_17 ==
  << <<"1", "1">>, <<"1", "2">>, <<"1", "3">>, <<"1", "4">>, <<"1", "5">>, <<"1", "6">>,
     <<"1", "7">> >>

backplane_relay_common_numbers ==
  << <<"1", "1">>, <<"1", "2">>, <<"1", "3">>, <<"1", "4">>, <<"1", "5">>, <<"1", "6">> >>

get_analog_backplane_specifiers_io == _get_slot_ids_io

get_analog_backplane_specifiers ==
  LET slot_id == _get_slot_ids
  IN Flatten([k \in 1..Len(slot_id) |->
                [r \in 1..Len(backplane_relay_common_numbers) |->
                   slot_id[k] \o backplane_common_number
                     \o backplane_relay_common_numbers[r]]])

(***************************************************************************)
(* Keithley 3706A: interlocks and the forbidden list                       *)
(***************************************************************************)
\* None when the instrument answers nil, int(float(state)) otherwise
get_interlock_state_by_slot(slot) ==
  IF interlock[slot] = "nil" THEN "None" ELSE interlock[slot]

interlock_status(state) ==
  CASE state = "None" ->
         "No card is installed or the installed card does not support interlocks"
    [] state = "0" -> "Interlocks 1 and 2 are disengaged on the card"
    [] state = "1" -> "Interlock 1 is engaged, interlock 2 (if it exists) is disengaged"
    [] state = "2" -> "Interlock 2 in engaged, interlock 1 is disengaged"
    [] state = "3" -> "Both interlock 1 and 2 are engaged"

Disengaged == "Interlocks 1 and 2 are disengaged on the card"

get_interlock_state_io ==
  LET slot_id == _get_slot_ids
  IN _get_slot_ids_io \o
     [k \in 1..Len(slot_id) |-> Ask("slot.interlock.state", SlotNo(slot_id[k]))]

get_interlock_state ==
  LET slot_id == _get_slot_ids
  IN [k \in 1..Len(slot_id) |->
        [slot_no |-> slot_id[k],
         state |-> interlock_status(get_interlock_state_by_slot(SlotNo(slot_id[k])))]]

(***************************************************************************)
(* Keithley 3706A: _validator                                              *)
(***************************************************************************)
_validator_io ==
  get_channels_io \o _get_channel_ranges_io \o _get_slot_names_io
    \o get_analog_backplane_specifiers_io

\* (*ch, *ch_range, *slots, *backplanes)
LegalTuple ==
  get_channels \o _get_channel_ranges \o (<<s_allslots>> \o _get_slot_names)
    \o get_analog_backplane_specifiers

\* for element in specifier: if element not in (...): return False
RECURSIVE ValidatorLoop(_, _, _)
ValidatorLoop(specifier, legal, i) ==
  IF i > Len(specifier) THEN TRUE
  ELSE IF specifier[i] \notin legal THEN FALSE
  ELSE ValidatorLoop(specifier, legal, i + 1)

\* a validator that lets the empty specifier through
_validator_empty_passes(val) ==
  val = s_empty \/ ValidatorLoop(Split(val, ","), Range(LegalTuple), 1)

\* a validator that looks at the first element only
_validator_first_only(val) == Split(val, ",")[1] \in Range(LegalTuple)

_validator(val) == ValidatorLoop(Split(val, ","), Range(LegalTuple), 1)

(***************************************************************************)
(* Keithley 3706A: the outcome of a call: how it ended, what it sent to    *)
(* the instrument in order, and the warnings it emitted in order           *)
(***************************************************************************)
InvalidValue == "Keithley3706AInvalidValue"
UnknownOrEmptySlot == "Keithley3706AUnknownOrEmptySlot"

Out(result, sent, warnings) == [result |-> result, sent |-> sent, warnings |-> warnings]

\* a relay test that looks at the first element only
ContainsBackplane_first_only(val) ==
  Split(val, ",")[1] \in Range(get_analog_backplane_specifiers)

\* for element in specifiers: if element in backplanes: raise
ContainsBackplane(val) ==
  LET backplanes == Range(get_analog_backplane_specifiers)
      specifiers == Split(val, ",")
  IN \E i \in 1..Len(specifiers) : specifiers[i] \in backplanes

\* a reset_channel that writes before it validates
reset_channel_write_first(val) ==
  IF ~_validator(val)
  THEN Out(InvalidValue, <<Write("channel.reset", val)>> \o _validator_io, <<>>)
  ELSE Out("ok", <<Write("channel.reset", val)>> \o _validator_io, <<>>)

reset_channel(val) ==
  IF ~_validator(val) THEN Out(InvalidValue, _validator_io, <<>>)
  ELSE Out("ok", _validator_io \o <<Write("channel.reset", val)>>, <<>>)

open_channel(val) ==
  IF ~_validator(val) THEN Out(InvalidValue, _validator_io, <<>>)
  ELSE Out("ok", _validator_io \o <<Write("channel.open", val)>>, <<>>)

get_forbidden_channels(val) ==
  IF ~_validator(val) THEN Out(InvalidValue, _validator_io, <<>>)
  ELSE Out("ok", _validator_io \o <<Ask("channel.getforbidden", val)>>, <<>>)

_is_backplane_channel_raises(channel_id) == Len(channel_id) # 4

_is_backplane_channel(channel_id) == channel_id[2] = "9"

\* the loop of _warn_on_disengaged_interlocks: the warnings emitted so far, and
\* whether _is_backplane_channel raised
RECURSIVE WarnLoop(_, _, _, _)
WarnLoop(val_specifiers, states, i, acc) ==
  IF i > Len(val_specifiers) THEN [raised |-> FALSE, warnings |-> acc]
  ELSE LET channel == val_specifiers[i]
       IN IF _is_backplane_channel_raises(channel)
          THEN [raised |-> TRUE, warnings |-> acc]
          ELSE IF ~_is_backplane_channel(channel)
          THEN WarnLoop(val_specifiers, states, i + 1, acc)
          ELSE LET slot == <<channel[1]>>
                   k == CHOOSE k \in 1..Len(states) : states[k].slot_no = slot
               IN IF states[k].state = Disengaged
                  THEN WarnLoop(val_specifiers, states, i + 1,
                                Append(acc, <<"interlock", states[k].slot_no, channel>>))
                  ELSE WarnLoop(val_specifiers, states, i + 1, acc)

_warn_on_disengaged_interlocks(val) ==
  WarnLoop(Split(val, ","), get_interlock_state, 1, <<>>)

close_channel(val) ==
  LET slots == <<s_allslots>> \o _get_slot_names
      fc == get_forbidden_channels(s_allslots)
      io1 == _get_slot_names_io \o fc.sent
      io2 == io1 \o _validator_io
      w1 == IF val \in Range(Split(forbidden, ",")) THEN << <<"forbidden">> >> ELSE <<>>
      wi == _warn_on_disengaged_interlocks(val)
      io3 == io2 \o get_interlock_state_io
  IN IF fc.result # "ok" THEN Out(fc.result, io1, <<>>)
     ELSE IF val \in Range(slots) THEN Out(InvalidValue, io1, <<>>)
     ELSE IF ~_validator(val) THEN Out(InvalidValue, io2, <<>>)
     ELSE IF wi.raised THEN Out(InvalidValue, io3, w1 \o wi.warnings)
     ELSE Out("ok", io3 \o <<Write("channel.close", val)>>, w1 \o wi.warnings)

exclusive_close(val) ==
  LET slots == <<s_allslots>> \o _get_slot_names
      io1 == _get_slot_names_io
  IN IF val \in Range(slots) THEN Out(InvalidValue, io1, <<>>)
     ELSE IF val = s_empty THEN Out(InvalidValue, io1, <<>>)
     ELSE IF ~_validator(val) THEN Out(InvalidValue, io1 \o _validator_io, <<>>)
     ELSE Out("ok", io1 \o _validator_io \o <<Write("channel.exclusiveclose", val)>>, <<>>)

exclusive_slot_close(val) ==
  LET slots == <<s_allslots>> \o _get_slot_names
      io1 == _get_slot_names_io
  IN IF val \in Range(slots) THEN Out(InvalidValue, io1, <<>>)
     ELSE IF val = s_empty THEN Out(InvalidValue, io1, <<>>)
     ELSE IF ~_validator(val) THEN Out(InvalidValue, io1 \o _validator_io, <<>>)
     ELSE Out("ok", io1 \o _validator_io \o <<Write("channel.exclusiveslotclose", val)>>,
              <<>>)

\* a get_closed_channels that validates before it looks for the empty string
get_closed_channels_validate_first(val) ==
  IF ~_validator(val) THEN Out(InvalidValue, _validator_io, <<>>)
  ELSE Out("ok", _validator_io \o <<Ask("channel.getclose", val)>>, <<>>)

get_closed_channels(val) ==
  IF val = s_empty THEN Out(InvalidValue, <<>>, <<>>)
  ELSE IF ~_validator(val) THEN Out(InvalidValue, _validator_io, <<>>)
  ELSE Out("ok", _validator_io \o <<Ask("channel.getclose", val)>>, <<>>)

set_forbidden_channels(val) ==
  IF ~_validator(val) THEN Out(InvalidValue, _validator_io, <<>>)
  ELSE Out("ok", _validator_io \o <<Write("channel.setforbidden", val)>>, <<>>)

clear_forbidden_channels(val) ==
  IF ~_validator(val) THEN Out(InvalidValue, _validator_io, <<>>)
  ELSE Out("ok", _validator_io \o <<Write("channel.clearforbidden", val)>>, <<>>)

set_delay(val) ==
  LET io1 == get_analog_backplane_specifiers_io
  IN IF ContainsBackplane(val) THEN Out(InvalidValue, io1, <<>>)
     ELSE IF ~_validator(val) THEN Out(InvalidValue, io1 \o _validator_io, <<>>)
     ELSE Out("ok", io1 \o _validator_io \o <<Write("channel.setdelay", val)>>, <<>>)

get_delay(val) ==
  LET io1 == get_analog_backplane_specifiers_io
  IN IF ContainsBackplane(val) THEN Out(InvalidValue, io1, <<>>)
     ELSE IF ~_validator(val) THEN Out(InvalidValue, io1 \o _validator_io, <<>>)
     ELSE Out("ok", io1 \o _validator_io \o <<Ask("channel.getdelay", val)>>, <<>>)

\* for element in states: warn when its interlocks are disengaged
SlotWarnings(states) ==
  LET F[k \in 0..Len(states)] ==
        IF k = 0 THEN <<>>
        ELSE IF states[k].state = Disengaged
             THEN Append(F[k - 1], <<"interlock_slot", states[k].slot_no>>)
             ELSE F[k - 1]
  IN F[Len(states)]

set_backplane(val, backplane) ==
  LET io1 == get_interlock_state_io \o get_analog_backplane_specifiers_io
      backplanes == Range(get_analog_backplane_specifiers)
      plane_specifiers == Split(backplane, ",")
      w == SlotWarnings(get_interlock_state)
  IN IF ContainsBackplane(val) THEN Out(InvalidValue, io1, w)
     ELSE IF ~_validator(val) THEN Out(InvalidValue, io1 \o _validator_io, w)
     ELSE IF \E i \in 1..Len(plane_specifiers) : plane_specifiers[i] \notin backplanes
     THEN Out(InvalidValue, io1 \o _validator_io, w)
     ELSE Out("ok", io1 \o _validator_io
                      \o <<Write("channel.setbackplane", <<val, backplane>>)>>, w)

get_backplane(val) ==
  LET io1 == get_analog_backplane_specifiers_io
  IN IF ContainsBackplane(val) THEN Out(InvalidValue, io1, <<>>)
     ELSE IF ~_validator(val) THEN Out(InvalidValue, io1 \o _validator_io, <<>>)
     ELSE Out("ok", io1 \o _validator_io \o <<Ask("channel.getbackplane", val)>>, <<>>)

\* a Python string iterated: its characters
Chars(s) == [i \in 1..Len(s) |-> <<s[i]>>]

\* for channel in channels_to_connect_or_disconnect: open_channel (connect) or
\* close_channel (disconnect); the first call that raises ends the loop
ConnectStep(o, rest) ==
  IF o.result # "ok" THEN o
  ELSE Out(rest.result, o.sent \o rest.sent, o.warnings \o rest.warnings)

RECURSIVE ConnectLoop(_, _, _)
ConnectLoop(action, channels, i) ==
  IF i > Len(channels) THEN Out("ok", <<>>, <<>>)
  ELSE ConnectStep(IF action = "connect" THEN open_channel(channels[i])
                   ELSE close_channel(channels[i]),
                   ConnectLoop(action, channels, i + 1))

ConnectedOut(o, channels) ==
  [out |-> Out(o.result, _get_slot_ids_io \o o.sent, o.warnings),
   ret |-> IF o.result = "ok" THEN channels ELSE <<>>]

\* what a connect helper returns: the outcome and the list of channels
Connected(slot_id, action, channels) ==
  IF str(slot_id) \notin Range(_get_slot_ids)
  THEN [out |-> Out(UnknownOrEmptySlot, _get_slot_ids_io, <<>>), ret |-> <<>>]
  ELSE ConnectedOut(ConnectLoop(action, channels, 1), channels)

\* itertools.product(slot, row, columns_list): slot and row are strings, which
\* product iterates by character (slot has one character)
_connect_or_disconnect_row_to_columns(action, slot_id, row_id, columns) ==
  LET columns_list == [i \in 1..Len(columns) |-> Col2(columns[i])]
  IN Connected(slot_id, action,
               Product3(str(slot_id), Chars(str(row_id)), columns_list))

\* itertools.product(slot, rows_list, column): rows_list and column are lists
_connect_or_disconnect_column_to_rows(action, slot_id, column_id, rows) ==
  LET rows_list == [i \in 1..Len(rows) |-> str(rows[i])]
  IN Connected(slot_id, action,
               Product3(str(slot_id), rows_list, <<Col2(column_id)>>))

(***************************************************************************)
(* The inputs of the model                                                 *)
(***************************************************************************)
\* the greatest number of comma-separated elements of a specifier
MaxElems == 2

\* the slots a card is ever put in
UsedSlots == {1, 2}

\* the card that goes into a slot: a 1 x 2 matrix in slot 1, a 2 x 1 matrix in
\* slot 2 (what slot[i].idn, slot[i].rows.matrix, slot[i].columns.matrix answer)
CardFor(i) ==
  IF i = 1
  THEN [idn |-> "3730,6x16 High Density Matrix,01.40h,0000001", rows |-> 1, cols |-> 2]
  ELSE [idn |-> "3730,6x16 High Density Matrix,01.40h,0000002", rows |-> 2, cols |-> 1]

InterlockAnswers == {"0", "3"}

t_1101 == <<"1", "1", "0", "1">>
t_1102 == <<"1", "1", "0", "2">>
t_1911 == <<"1", "9", "1", "1">>
t_2911 == <<"2", "9", "1", "1">>
t_1917 == <<"1", "9", "1", "7">>
t_slot1 == <<"s", "l", "o", "t", "1">>
t_range == t_1101 \o <<":">> \o t_1102

\* the elements specifiers are made of: channels, a range, slots, backplane
\* relays, a relay id that does not exist, the empty string
TokenPool == {t_1101, t_range, t_1911, t_1917, t_slot1, s_allslots, s_empty}

ElemSeqs == UNION {[1..n -> TokenPool] : n \in 1..MaxElems}

t_2101 == <<"2", "1", "0", "1">>
t_2102 == <<"2", "1", "0", "2">>
t_2201 == <<"2", "2", "0", "1">>

\* what _validator is also asked about: a channel of the card in slot 2, the
\* range of its two channels, and a range that ends on a column it does not have
ValidatorPool ==
  TokenPool \cup {t_2201, t_2101 \o <<":">> \o t_2201, t_2101 \o <<":">> \o t_2102}

ValidatorSeqs == UNION {[1..n -> ValidatorPool] : n \in 1..MaxElems}

BackplaneArgs == {t_1911 \o <<",">> \o t_2911, t_1917}

ForbiddenAnswers == {s_empty, t_1101 \o <<",">> \o t_1911}

Idle ==
  [op |-> "idle", elems |-> <<>>, val |-> <<>>, backplane |-> <<>>, result |-> "",
   sent |-> <<>>, warnings |-> <<>>, ret |-> <<>>, args |-> <<>>]

\* the record of a call: its arguments and its outcome; ret is the list a call
\* returns, for the calls that return one; args are the arguments of a call that
\* takes numbers instead of a specifier
MkCall(op, elems, backplane, out) ==
  [op |-> op, elems |-> elems, val |-> Join(elems, ","), backplane |-> backplane,
   result |-> out.result, sent |-> out.sent, warnings |-> out.warnings, ret |-> <<>>,
   args |-> <<>>]

(***************************************************************************)
(* Keithley 3706A: the state machine.  The driver keeps no state of its    *)
(* own; the instrument's inventory, interlocks and forbidden list change   *)
(* between calls.                                                          *)
(***************************************************************************)
\* a card is put into an empty slot
InsertCard ==
  /\ call.op = "idle"
  /\ \E i \in UsedSlots, st \in InterlockAnswers :
       /\ cards[i] = EmptySlot
       /\ cards' = [cards EXCEPT ![i] = CardFor(i)]
       /\ interlock' = [interlock EXCEPT ![i] = st]
  /\ UNCHANGED <<forbidden, call, svars, blk>>

\* a card is taken out
RemoveCard ==
  /\ call.op = "idle"
  /\ \E i \in UsedSlots :
       /\ cards[i] # EmptySlot
       /\ cards' = [cards EXCEPT ![i] = EmptySlot]
       /\ interlock' = [interlock EXCEPT ![i] = "nil"]
  /\ UNCHANGED <<forbidden, call, svars, blk>>

\* the interlock of an installed card is engaged or disengaged
SetInterlock ==
  /\ call.op = "idle"
  /\ \E i \in UsedSlots, st \in InterlockAnswers :
       /\ cards[i] # EmptySlot
       /\ interlock' = [interlock EXCEPT ![i] = st]
  /\ UNCHANGED <<cards, forbidden, call, svars, blk>>

\* the instrument's forbidden list changes
SetForbidden ==
  /\ call.op = "idle"
  /\ \E f \in ForbiddenAnswers : forbidden' = f
  /\ UNCHANGED <<cards, interlock, call, svars, blk>>

Validator ==
  /\ call.op = "idle"
  /\ \E e \in ValidatorSeqs :
       call' = MkCall("_validator", e, <<>>,
                      Out(IF _validator(Join(e, ",")) THEN "True" ELSE "False",
                          _validator_io, <<>>))
  /\ UNCHANGED <<cards, interlock, forbidden, svars, blk>>

ResetChannel ==
  /\ call.op = "idle"
  /\ \E e \in ElemSeqs :
       call' = MkCall("reset_channel", e, <<>>, reset_channel(Join(e, ",")))
  /\ UNCHANGED <<cards, interlock, forbidden, svars, blk>>

OpenChannel ==
  /\ call.op = "idle"
  /\ \E e \in ElemSeqs :
       call' = MkCall("open_channel", e, <<>>, open_channel(Join(e, ",")))
  /\ UNCHANGED <<cards, interlock, forbidden, svars, blk>>

CloseChannel ==
  /\ call.op = "idle"
  /\ \E e \in ElemSeqs :
       call' = MkCall("close_channel", e, <<>>, close_channel(Join(e, ",")))
  /\ UNCHANGED <<cards, interlock, forbidden, svars, blk>>

ExclusiveClose ==
  /\ call.op = "idle"
  /\ \E e \in ElemSeqs :
       call' = MkCall("exclusive_close", e, <<>>, exclusive_close(Join(e, ",")))
  /\ UNCHANGED <<cards, interlock, forbidden, svars, blk>>

ExclusiveSlotClose ==
  /\ call.op = "idle"
  /\ \E e \in ElemSeqs :
       call' = MkCall("exclusive_slot_close", e, <<>>, exclusive_slot_close(Join(e, ",")))
  /\ UNCHANGED <<cards, interlock, forbidden, svars, blk>>

GetClosedChannels ==
  /\ call.op = "idle"
  /\ \E e \in ElemSeqs :
       call' = MkCall("get_closed_channels", e, <<>>, get_closed_channels(Join(e, ",")))
  /\ UNCHANGED <<cards, interlock, forbidden, svars, blk>>

SetForbiddenChannels ==
  /\ call.op = "idle"
  /\ \E e \in ElemSeqs :
       call' = MkCall("set_forbidden_channels", e, <<>>,
                      set_forbidden_channels(Join(e, ",")))
  /\ UNCHANGED <<cards, interlock, forbidden, svars, blk>>

GetForbiddenChannels ==
  /\ call.op = "idle"
  /\ \E e \in ElemSeqs :
       call' = MkCall("get_forbidden_channels", e, <<>>,
                      get_forbidden_channels(Join(e, ",")))
  /\ UNCHANGED <<cards, interlock, forbidden, svars, blk>>

ClearForbiddenChannels ==
  /\ call.op = "idle"
  /\ \E e \in ElemSeqs :
       call' = MkCall("clear_forbidden_channels", e, <<>>,
                      clear_forbidden_channels(Join(e, ",")))
  /\ UNCHANGED <<cards, interlock, forbidden, svars, blk>>

SetDelay ==
  /\ call.op = "idle"
  /\ \E e \in ElemSeqs :
       call' = MkCall("set_delay", e, <<>>, set_delay(Join(e, ",")))
  /\ UNCHANGED <<cards, interlock, forbidden, svars, blk>>

GetDelay ==
  /\ call.op = "idle"
  /\ \E e \in ElemSeqs :
       call' = MkCall("get_delay", e, <<>>, get_delay(Join(e, ",")))
  /\ UNCHANGED <<cards, interlock, forbidden, svars, blk>>

SetBackplane ==
  /\ call.op = "idle"
  /\ \E e \in ElemSeqs, b \in BackplaneArgs :
       call' = MkCall("set_backplane", e, b, set_backplane(Join(e, ","), b))
  /\ UNCHANGED <<cards, interlock, forbidden, svars, blk>>

GetBackplane ==
  /\ call.op = "idle"
  /\ \E e \in ElemSeqs :
       call' = MkCall("get_backplane", e, <<>>, get_backplane(Join(e, ",")))
  /\ UNCHANGED <<cards, interlock, forbidden, svars, blk>>

GetAnalogBackplaneSpecifiers ==
  /\ call.op = "idle"
  /\ call' = [MkCall("get_analog_backplane_specifiers", <<>>, <<>>,
                     Out("ok", get_analog_backplane_specifiers_io, <<>>))
              EXCEPT !.ret = get_analog_backplane_specifiers]
  /\ UNCHANGED <<cards, interlock, forbidden, svars, blk>>

\* the slot numbers get_channels_by_slot and the connect helpers are called with:
\* the slots a card goes into, and one that stays empty
SlotArgs == UsedSlots \cup {3}

GetChannelsBySlot ==
  /\ call.op = "idle"
  /\ \E slot_no \in SlotArgs :
       call' = IF get_channels_by_slot_raises(slot_no)
               THEN MkCall("get_channels_by_slot", <<str(slot_no)>>, <<>>,
                           Out(UnknownOrEmptySlot, get_channels_by_slot_io(slot_no), <<>>))
               ELSE [MkCall("get_channels_by_slot", <<str(slot_no)>>, <<>>,
                            Out("ok", get_channels_by_slot_io(slot_no), <<>>))
                     EXCEPT !.ret = get_channels_by_slot(slot_no)]
  /\ UNCHANGED <<cards, interlock, forbidden, svars, blk>>

\* the row and column numbers the connect helpers are called with: those of the
\* cards, and a row number of two digits
RowArgs == {1, 2, 12}
IdSeqs == UNION {[1..n -> {1, 2}] : n \in 0..MaxElems}

MkConnect(op, args, c) ==
  [MkCall(op, <<>>, <<>>, c.out) EXCEPT !.ret = c.ret, !.args = args]

ConnectRowToColumns ==
  /\ call.op = "idle"
  /\ \E slot_id \in SlotArgs, row_id \in RowArgs, columns \in IdSeqs :
       call' = MkConnect("connect_row_to_columns", <<slot_id, row_id, columns>>,
                 _connect_or_disconnect_row_to_columns("connect", slot_id, row_id, columns))
  /\ UNCHANGED <<cards, interlock, forbidden, svars, blk>>

DisconnectRowFromColumns ==
  /\ call.op = "idle"
  /\ \E slot_id \in SlotArgs, row_id \in RowArgs, columns \in IdSeqs :
       call' = MkConnect("disconnect_row_from_columns", <<slot_id, row_id, columns>>,
                 _connect_or_disconnect_row_to_columns("disconnect", slot_id, row_id,
                                                       columns))
  /\ UNCHANGED <<cards, interlock, forbidden, svars, blk>>

ConnectColumnToRows ==
  /\ call.op = "idle"
  /\ \E slot_id \in SlotArgs, column_id \in {1, 2}, rows \in IdSeqs :
       call' = MkConnect("connect_column_to_rows", <<slot_id, column_id, rows>>,
                 _connect_or_disconnect_column_to_rows("connect", slot_id, column_id, rows))
  /\ UNCHANGED <<cards, interlock, forbidden, svars, blk>>

DisconnectColumnFromRows ==
  /\ call.op = "idle"
  /\ \E slot_id \in SlotArgs, column_id \in {1, 2}, rows \in IdSeqs :
       call' = MkConnect("disconnect_column_from_rows", <<slot_id, column_id, rows>>,
                 _connect_or_disconnect_column_to_rows("disconnect", slot_id, column_id,
                                                       rows))
  /\ UNCHANGED <<cards, interlock, forbidden, svars, blk>>

\* the call returns, or its exception reaches the caller
Return ==
  /\ call.op # "idle"
  /\ call' = Idle
  /\ UNCHANGED <<cards, interlock, forbidden, svars, blk>>

NextSwitch ==
  \/ InsertCard \/ RemoveCard \/ SetInterlock \/ SetForbidden
  \/ Validator \/ ResetChannel \/ OpenChannel \/ CloseChannel
  \/ ExclusiveClose \/ ExclusiveSlotClose \/ GetClosedChannels
  \/ SetForbiddenChannels \/ GetForbiddenChannels \/ ClearForbiddenChannels
  \/ SetDelay \/ GetDelay \/ SetBackplane \/ GetBackplane
  \/ GetAnalogBackplaneSpecifiers \/ GetChannelsBySlot
  \/ ConnectRowToColumns \/ DisconnectRowFromColumns
  \/ ConnectColumnToRows \/ DisconnectColumnFromRows
  \/ Return

vars == <<cards, interlock, forbidden, call, trace_ready, preamble, shape, wmode,
          prepared, fetched, g, blk>>

(***************************************************************************)
(* Rigol DS4000: the binary block of ScopeArray._validate_strip_block.     *)
(* A bytes value is a sequence of integers 0..255.                         *)
(***************************************************************************)
\* the header is block[:11]
HeaderLen == 11

\* the bytes str.strip() and bytes.strip() remove: " \t\n\r\x0b\x0c"
Whitespace == {9, 10, 11, 12, 13, 32}

Pow10_[k \in 0..9] == IF k = 0 THEN 1 ELSE 10 * Pow10_[k - 1]

\* "#9" and the length as nine ASCII digits, zero padded
Header(n) == <<35, 57>> \o [i \in 1..9 |-> 48 + ((n \div Pow10_[9 - i]) % 10)]

\* the block the instrument sends for a payload, followed by its terminator
MkBlock(declared, payload, trailing) == Header(declared) \o payload \o trailing

\* bytes.strip(): leading and trailing whitespace removed
RECURSIVE LStrip(_)
LStrip(b) == IF Len(b) > 0 /\ b[1] \in Whitespace THEN LStrip(Tail(b)) ELSE b

RECURSIVE RStrip(_)
RStrip(b) ==
  IF Len(b) > 0 /\ b[Len(b)] \in Whitespace THEN RStrip(SubSeq(b, 1, Len(b) - 1)) ELSE b

strip(b) == RStrip(LStrip(b))

\* block[:11].decode("ascii") raises for a byte above 127
DecodeFails(block) ==
  \E i \in 1..HeaderLen : i <= Len(block) /\ block[i] > 127

\* re.match(r"#9(\d{9})", header)
HeaderMatches(block) ==
  /\ Len(block) >= HeaderLen
  /\ block[1] = 35
  /\ block[2] = 57
  /\ \A i \in 3..HeaderLen : block[i] \in 48..57

\* int(match[1])
RECURSIVE ParseInt(_, _)
ParseInt(digits, acc) ==
  IF Len(digits) = 0 THEN acc
  ELSE ParseInt(Tail(digits), 10 * acc + (digits[1] - 48))

Malformed == "ValueError: Malformed data"

\* the result of _validate_strip_block: the stripped body, or the exception
_validate_strip_block(block) ==
  IF DecodeFails(block) THEN [result |-> "UnicodeDecodeError", data |-> <<>>]
  ELSE IF HeaderMatches(block)
  THEN LET size == ParseInt(SubSeq(block, 3, HeaderLen), 0)
           block_nh == strip(SubSeq(block, HeaderLen + 1, Len(block)))
       IN IF size = Len(block_nh) THEN [result |-> "ok", data |-> block_nh]
          ELSE [result |-> Malformed, data |-> <<>>]
  ELSE [result |-> Malformed, data |-> <<>>]

(***************************************************************************)
(* Rigol DS4000: preamble and conversion                                   *)
(***************************************************************************)
NoPreamble == [set |-> FALSE]

\* PreambleNT(*preamble_num): ten fields, by position
PreambleNT(f) ==
  [set |-> TRUE, format |-> f[1], mode |-> f[2], points |-> f[3], count |-> f[4],
   xincrement |-> f[5], xorigin |-> f[6], xreference |-> f[7], yincrement |-> f[8],
   yorigin |-> f[9], yreference |-> f[10]]

PreambleFields == 10

\* the bytes read as signed 8-bit values
frombuffer_int8(data_bin) ==
  [i \in 1..Len(data_bin) |-> IF data_bin[i] > 127 THEN data_bin[i] - 256 ELSE data_bin[i]]

\* np.frombuffer(data_bin, dtype=np.uint8).astype(float)
frombuffer_uint8(data_bin) == [i \in 1..Len(data_bin) |-> data_bin[i]]

\* (data_raw - p.yreference - p.yorigin) * p.yincrement
convert(data_bin, p) ==
  LET data_raw == frombuffer_uint8(data_bin)
  IN [i \in 1..Len(data_raw) |-> (data_raw[i] - p.yreference - p.yorigin) * p.yincrement]

(***************************************************************************)
(* Rigol DS4000: the inputs of the model                                   *)
(***************************************************************************)
\* the greatest number of bytes one capture accumulates
MaxData == 2

\* the greatest payload of a block checked alone
MaxPayload == 2

\* curvedata (raw=False) and curvedata_raw (raw=True) of channel 1
Params == {[channel |-> 1, raw |-> FALSE], [channel |-> 1, raw |-> TRUE]}

\* the answers to :WAVeform:PREamble?, split and converted: format, mode, points,
\* count, xincrement, xorigin, xreference, yincrement, yorigin, yreference; the
\* last one lacks a field
PreambleAnswers ==
  { <<0, 2, 1, 1, 1, 0, 0, 2, 3, 100>>,
    <<0, 2, 2, 1, 1, 0, 0, 1, -5, 128>>,
    <<0, 2, 2, 1, 1, 0, 0, 1, -5>> }

s_IDLE == <<"I", "D", "L", "E">>
s_READ == <<"R", "E", "A", "D">>

\* the answers to :WAVeform:STATus?
StatusAnswers ==
  {s_IDLE \o <<",", "0">>, s_READ \o <<",", "7">>, s_READ \o <<",">> \o s_IDLE}

\* sample bytes: below and above 127, and one that is ASCII whitespace
SampleBytes == {7, 32, 200}

SeqsUpTo(S, n) == UNION {[1..k -> S] : k \in 0..n}

\* the newline that ends a block on the wire
Trailings == {<<10>>}

\* every payload that fits when data_bin holds n bytes, framed as the instrument
\* frames it: "#9", the nine digits of its length, the payload, the newline
WellFormedBlocks(n) ==
  {MkBlock(Len(pl), pl, t) : pl \in SeqsUpTo(SampleBytes, MaxData - n), t \in Trailings}

\* the blocks read_raw may return when data_bin holds n bytes: the well-formed
\* ones, and blocks that break the framing
BlocksFor(n) ==
  WellFormedBlocks(n)
  \cup {MkBlock(1, <<>>, <<10>>), <<35, 56>> \o SubSeq(Header(0), 3, HeaderLen),
        <<200>> \o Header(0)}

\* the blocks _validate_strip_block is checked on alone
BlockInputs ==
  {[declared |-> d, payload |-> pl, trailing |-> t] :
     d \in 0..(MaxPayload + 1), pl \in SeqsUpTo(SampleBytes, MaxPayload),
     t \in {<<>>, <<10>>, <<13, 10>>}}

(***************************************************************************)
(* Rigol DS4000: ScopeArray.prepare_curvedata and ScopeArray.get_raw       *)
(***************************************************************************)
TraceNotReady == "RigolDS4000TraceNotReady"
CommError == "ValueError: Communication error"

\* range(self.max_read_step)
max_read_step == 50

\* the shape given to ArrayParameter.__init__
InitialShape == 1400

SWrite(cmd, arg) == <<"write", cmd, arg>>
SAsk(cmd) == <<"ask", cmd, 0>>
ReadRaw == <<"read_raw", "", 0>>

\* the ScopeArray call: the parameter, the position in get_raw, the loop index,
\* the accumulator, what was sent, how the call ended and what it returned; and
\* as history: whether a prepare_curvedata had completed since the last get_raw,
\* whether a status answer reported IDLE, whether a block was rejected, whether
\* every block read was well-formed, and the parameter's state at entry
GIdle ==
  [op |-> "idle", p |-> [channel |-> 0, raw |-> FALSE], pc |-> "idle", i |-> 0,
   data_bin |-> <<>>, sent |-> <<>>, result |-> "", ret |-> <<>>, returned |-> FALSE,
   was_prepared |-> FALSE, idle_seen |-> FALSE, rejected |-> FALSE, framed |-> TRUE,
   before |-> <<>>]

\* the parameter's own state, as a call finds it
ParamState(p) == <<trace_ready[p], preamble[p], shape[p]>>

\* a preparation that stops the acquisition in display mode too
prepare_writes_always_stop(p) ==
  <<SWrite(":STOP", 0),
    SWrite(IF p.raw THEN ":WAVeform:MODE RAW" ELSE ":WAVeform:MODE NORM", 0)>>

\* what prepare_curvedata writes before it asks for the preamble
prepare_writes(p) ==
  IF p.raw THEN <<SWrite(":STOP", 0), SWrite(":WAVeform:MODE RAW", 0)>>
  ELSE <<SWrite(":WAVeform:MODE NORM", 0)>>

\* a get_preamble that keeps the preamble of the first preparation
get_preamble_once(p, ans) ==
  IF preamble[p].set THEN preamble ELSE [preamble EXCEPT ![p] = PreambleNT(ans)]

\* self.preamble = PreambleNT(*preamble_num)
get_preamble(p, ans) == [preamble EXCEPT ![p] = PreambleNT(ans)]

\* prepare_curvedata: the mode is written, the preamble asked for and parsed, then
\* setpoints, shape and trace_ready are set; a preamble that does not have the ten
\* fields raises TypeError before anything is assigned
PrepareCurvedata ==
  /\ g.op = "idle"
  /\ \E p \in Params, ans \in PreambleAnswers :
       LET sent == prepare_writes(p) \o <<SAsk(":WAVeform:PREamble?")>>
           okp == Len(ans) = PreambleFields
       IN /\ wmode' = IF p.raw THEN "RAW" ELSE "NORM"
          /\ preamble' = IF okp THEN get_preamble(p, ans) ELSE preamble
          /\ fetched' = IF okp THEN [fetched EXCEPT ![p] = ans] ELSE fetched
          /\ shape' = IF okp THEN [shape EXCEPT ![p] = ans[3]] ELSE shape
          /\ trace_ready' = IF okp THEN [trace_ready EXCEPT ![p] = TRUE] ELSE trace_ready
          /\ prepared' = IF okp THEN [prepared EXCEPT ![p] = TRUE] ELSE prepared
          /\ g' = [GIdle EXCEPT !.op = "prepare_curvedata", !.p = p, !.pc = "done",
                                !.sent = sent, !.before = ParamState(p),
                                !.result = IF okp THEN "ok" ELSE "TypeError"]
  /\ UNCHANGED <<kvars, blk>>

\* a get_raw that leaves the flag set in raw-memory mode, until the read succeeds
trace_ready_kept_in_raw(p) ==
  IF p.raw THEN trace_ready ELSE [trace_ready EXCEPT ![p] = FALSE]

\* a get_raw that leaves the flag set
trace_ready_kept(p) == trace_ready

\* self.trace_ready = False, once the readiness check has passed
trace_ready_consumed(p) == [trace_ready EXCEPT ![p] = FALSE]

\* a get_raw that begins the read before it resets it
get_raw_setup_begin_first(p) ==
  <<SWrite(":WAVeform:FORMat BYTE", 0), SWrite(":WAVeform:SOURce CHAN", p.channel)>>
  \o (IF p.raw
      THEN <<SWrite(":WAVeform:POINts", shape[p]), SWrite(":WAVeform:BEGin", 0),
             SWrite(":WAVeform:RESet", 0)>>
      ELSE <<>>)

\* the writes of get_raw before the first block is asked for
get_raw_setup(p) ==
  <<SWrite(":WAVeform:FORMat BYTE", 0), SWrite(":WAVeform:SOURce CHAN", p.channel)>>
  \o (IF p.raw
      THEN <<SWrite(":WAVeform:POINts", shape[p]), SWrite(":WAVeform:RESet", 0),
             SWrite(":WAVeform:BEGin", 0)>>
      ELSE <<>>)

\* a get_raw that swallows the error and asks for the next block
block_rejected_retry(cur, v) == IF cur.p.raw THEN cur ELSE [cur EXCEPT !.pc = "poll"]

\* a block fails validation: the exception leaves get_raw, nothing is returned
block_rejected(cur, v) == [cur EXCEPT !.pc = "done", !.result = v.result]

\* get_raw up to the first block: the readiness check, the flag consumed, the
\* format, source and (raw) the point count, reset and begin written; in display
\* mode also the single block asked for, read, validated and converted
GetRawStart ==
  /\ g.op = "idle"
  /\ \E p \in Params :
       LET entry == [GIdle EXCEPT !.op = "get_raw", !.p = p,
                                  !.was_prepared = prepared[p],
                                  !.before = ParamState(p)]
       IN IF ~trace_ready[p]
          THEN /\ g' = [entry EXCEPT !.pc = "done", !.result = TraceNotReady]
               /\ prepared' = [prepared EXCEPT ![p] = FALSE]
               /\ UNCHANGED trace_ready
          ELSE /\ trace_ready' = trace_ready_consumed(p)
               /\ prepared' = [prepared EXCEPT ![p] = FALSE]
               /\ IF p.raw
                  THEN g' = [entry EXCEPT !.pc = "poll", !.sent = get_raw_setup(p)]
                  ELSE \E block \in BlocksFor(0) :
                         LET v == _validate_strip_block(block)
                             sent == get_raw_setup(p)
                                       \o <<SWrite(":WAVeform:DATA?", 0), ReadRaw>>
                             cur == [entry EXCEPT !.sent = sent,
                                                  !.rejected = v.result # "ok",
                                                  !.framed = block \in WellFormedBlocks(0)]
                         IN IF v.result # "ok"
                            THEN g' = block_rejected(cur, v)
                            ELSE g' = [cur EXCEPT !.pc = "done",
                                                    !.data_bin = v.data,
                                                    !.result = "ok",
                                                    !.returned = TRUE,
                                                    !.ret = convert(v.data, preamble[p])]
  /\ UNCHANGED <<preamble, shape, wmode, fetched, kvars, blk>>

\* a status that is read from the last field of the answer
status_of_last_field(answer) == Split(answer, ",")[Len(Split(answer, ","))]

\* ask(":WAVeform:STATus?").split(",")[0]
status_of(answer) == Split(answer, ",")[1]

\* the first field of a status answer is IDLE: the answer is IDLE, or IDLE and a
\* comma and more
ReportsIdle(answer) ==
  /\ Len(answer) >= 4
  /\ SubSeq(answer, 1, 4) = s_IDLE
  /\ (Len(answer) = 4 \/ answer[5] = ",")

\* the loop ends without a break once range(max_read_step) is used up
loop_exhausted(i) == i + 1 >= max_read_step

\* one iteration of the raw-memory loop of get_raw: the status asked for, the
\* block asked for, read, validated and appended; on IDLE :WAVeform:END is
\* written and the data converted and returned; after the last iteration
\* without IDLE the else branch raises
GetRawPoll ==
  /\ g.op = "get_raw"
  /\ g.pc = "poll"
  /\ \E answer \in StatusAnswers, block \in BlocksFor(Len(g.data_bin)) :
       LET status == status_of(answer)
           v == _validate_strip_block(block)
           sent == g.sent \o <<SAsk(":WAVeform:STATus?"), SWrite(":WAVeform:DATA?", 0),
                               ReadRaw>>
           seen == [g EXCEPT !.i = g.i + 1, !.sent = sent,
                             !.idle_seen = g.idle_seen \/ ReportsIdle(answer),
                             !.rejected = v.result # "ok",
                             !.framed = g.framed /\ block \in WellFormedBlocks(Len(g.data_bin))]
           data_bin == g.data_bin \o v.data
       IN IF v.result # "ok"
          THEN g' = block_rejected(seen, v)
          ELSE IF status = s_IDLE
          THEN g' = [seen EXCEPT !.pc = "done", !.data_bin = data_bin,
                                 !.sent = sent \o <<SWrite(":WAVeform:END", 0)>>,
                                 !.result = "ok", !.returned = TRUE,
                                 !.ret = convert(data_bin, preamble[g.p])]
          ELSE IF loop_exhausted(g.i)
          THEN g' = [seen EXCEPT !.pc = "done", !.data_bin = data_bin,
                                 !.result = CommError]
          ELSE g' = [seen EXCEPT !.data_bin = data_bin]
  /\ UNCHANGED <<trace_ready, preamble, shape, wmode, prepared, fetched, kvars, blk>>

\* the call returns, or its exception reaches the caller
ScopeReturn ==
  /\ g.op # "idle"
  /\ g.pc = "done"
  /\ g' = GIdle
  /\ UNCHANGED <<trace_ready, preamble, shape, wmode, prepared, fetched, kvars, blk>>

NextScope == PrepareCurvedata \/ GetRawStart \/ GetRawPoll \/ ScopeReturn

(***************************************************************************)
(* _validate_strip_block alone                                             *)
(***************************************************************************)
NoBlock == [declared |-> 0, payload |-> <<>>, trailing |-> <<>>, done |-> FALSE,
            result |-> "", data |-> <<>>]

\* no card installed, no call made; ScopeArray.__init__ has run for every
\* parameter
Init ==
  /\ cards = [i \in 1..NumSlots |-> EmptySlot]
  /\ interlock = [i \in 1..NumSlots |-> "nil"]
  /\ forbidden = s_empty
  /\ call = Idle
  /\ trace_ready = [p \in Params |-> FALSE]
  /\ preamble = [p \in Params |-> NoPreamble]
  /\ shape = [p \in Params |-> InitialShape]
  /\ wmode = "unset"
  /\ prepared = [p \in Params |-> FALSE]
  /\ fetched = [p \in Params |-> <<>>]
  /\ g = GIdle
  /\ blk = NoBlock

\* the same, with a block to validate
InitBlock ==
  /\ cards = [i \in 1..NumSlots |-> EmptySlot]
  /\ interlock = [i \in 1..NumSlots |-> "nil"]
  /\ forbidden = s_empty
  /\ call = Idle
  /\ trace_ready = [p \in Params |-> FALSE]
  /\ preamble = [p \in Params |-> NoPreamble]
  /\ shape = [p \in Params |-> InitialShape]
  /\ wmode = "unset"
  /\ prepared = [p \in Params |-> FALSE]
  /\ fetched = [p \in Params |-> <<>>]
  /\ g = GIdle
  /\ \E b \in BlockInputs :
        blk = [declared |-> b.declared, payload |-> b.payload, trailing |-> b.trailing,
               done |-> FALSE, result |-> "", data |-> <<>>]

ValidateStripBlock ==
  /\ ~blk.done
  /\ LET v == _validate_strip_block(MkBlock(blk.declared, blk.payload, blk.trailing))
     IN blk' = [blk EXCEPT !.done = TRUE, !.result = v.result, !.data = v.data]
  /\ UNCHANGED <<kvars, svars>>

NextBlock == ValidateStripBlock

(***************************************************************************)
(* The specifications                                                      *)
(***************************************************************************)
\* the switch
Spec == Init /\ [][NextSwitch]_vars

\* the scope
SpecScope == Init /\ [][NextScope]_vars

\* the block framing
SpecBlock == InitBlock /\ [][NextBlock]_vars

(***************************************************************************)
(* Properties of the switch (Spec)                                         *)
(***************************************************************************)
\* the legal tokens of the inventory of the current state
LegalTokens ==
  Range(get_channels) \cup Range(_get_channel_ranges) \cup {s_allslots}
    \cup Range(_get_slot_names) \cup Range(get_analog_backplane_specifiers)

Raised == call.result \in {InvalidValue, UnknownOrEmptySlot}

\* the positions of the writes of a call
WritesOf(c) == {i \in 1..Len(c.sent) : c.sent[i][1] = "write"}

\* the whole specifier is "allslots" or a slot name
IsSlotSpecifier(val) == val \in ({s_allslots} \cup Range(_get_slot_names))

\* the interlocks of the slot a relay belongs to are both disengaged
OnDisengagedSlot(relay) ==
  /\ relay \in Range(get_analog_backplane_specifiers)
  /\ interlock[SlotNo(<<relay[1]>>)] = "0"

\* C1: _validator(val) returns True exactly when every comma-separated element of
\* val is a legal token of the current inventory (a matrix channel, a channel
\* range, "allslots", a slot name, an analog backplane relay); one element that
\* is not, the empty one included, makes it return False.
C1_ValidatorIffAllLegal ==
  call.op = "_validator" =>
    (call.result = "True"
       <=> \A i \in 1..Len(call.elems) : call.elems[i] \in LegalTokens)

\* C1 happens: a range and a backplane relay, comma separated, are accepted
C1_Witness ==
  /\ call.op = "_validator"
  /\ call.elems = <<t_range, t_1911>>
  /\ call.result = "True"

\* C7: when reset_channel, open_channel, close_channel, exclusive_close,
\* exclusive_slot_close, set_forbidden_channels, clear_forbidden_channels,
\* set_delay or set_backplane raises Keithley3706AInvalidValue or
\* Keithley3706AUnknownOrEmptySlot, the call has sent no write.
C7Ops ==
  {"reset_channel", "open_channel", "close_channel", "exclusive_close",
   "exclusive_slot_close", "set_forbidden_channels", "clear_forbidden_channels",
   "set_delay", "set_backplane"}

C7_NoWriteBeforeRaise ==
  (call.op \in C7Ops /\ Raised) => WritesOf(call) = {}

\* C7 happens: close_channel raises after it has warned about an interlock
C7_Witness ==
  /\ call.op = "close_channel"
  /\ Raised
  /\ call.warnings # <<>>

ReadOnlyQueries ==
  {"slot.idn", "slot.rows.matrix", "slot.columns.matrix", "slot.interlock.state",
   "channel.getforbidden"}

\* a connect or disconnect helper
ConnectOps ==
  {"connect_row_to_columns", "disconnect_row_from_columns",
   "connect_column_to_rows", "disconnect_column_from_rows"}

DocumentedForClose(elems) ==
  \A i \in 1..Len(elems) :
     elems[i] \in Range(get_channels) \cup Range(_get_channel_ranges)
                    \cup Range(get_analog_backplane_specifiers)

\* the specifier passes every validation of the operation
PassesValidation(c) ==
  IF c.op = "close_channel"
  THEN ~IsSlotSpecifier(c.val) /\ _validator(c.val)
  ELSE /\ ~ContainsBackplane(c.val)
       /\ _validator(c.val)
       /\ Range(Split(c.backplane, ",")) \subseteq Range(get_analog_backplane_specifiers)

\* the command of the operation, as it is to be sent
CommandOf(c) ==
  IF c.op = "close_channel" THEN Write("channel.close", c.val)
  ELSE Write("channel.setbackplane", <<c.val, c.backplane>>)

\* C9: when close_channel or set_backplane emits an interlock or forbidden-channel
\* warning for a specifier that passes validation (for close_channel: one made of
\* channels, channel ranges and backplane relays), the call raises nothing and
\* sends its command exactly once.
C9_WarningsNeverBlock ==
  (/\ call.op \in {"close_channel", "set_backplane"}
   /\ call.warnings # <<>>
   /\ PassesValidation(call)
   /\ (call.op = "close_channel" => DocumentedForClose(call.elems)))
  => /\ call.result = "ok"
     /\ Cardinality(WritesOf(call)) = 1
     /\ \E i \in WritesOf(call) : call.sent[i] = CommandOf(call)

\* C10, as claimed: close_channel, open_channel and exclusive_close each emit an
\* interlock warning when the (valid) specifier contains an analog backplane
\* relay of a slot whose interlocks 1 and 2 are both disengaged.
C10_CloseOpenExclusiveWarn ==
  (/\ call.op \in {"close_channel", "open_channel", "exclusive_close"}
   /\ ~IsSlotSpecifier(call.val)
   /\ _validator(call.val))
  => \A i \in 1..Len(call.elems) :
       OnDisengagedSlot(call.elems[i])
         => <<"interlock", <<call.elems[i][1]>>, call.elems[i]>> \in Range(call.warnings)

\* the channels the instrument reports as forbidden to close
ForbiddenList == Range(Split(forbidden, ","))

\* C11: a close_channel that gets as far as its forbidden-channel check emits the
\* "forbidden to close" warning exactly when one of the comma-separated elements
\* of the specifier is on the forbidden list reported for "allslots".
C11_ForbiddenWarning ==
  (/\ call.op = "close_channel"
   /\ ~IsSlotSpecifier(call.val)
   /\ _validator(call.val))
  => (<<"forbidden">> \in Range(call.warnings)
        <=> \E i \in 1..Len(call.elems) : call.elems[i] \in ForbiddenList)

\* the slots that report a card
InstalledSlots == {i \in 1..NumSlots : cards[i] # EmptySlot}

\* C12: get_analog_backplane_specifiers returns, for every installed slot s and
\* for no other, exactly the six tokens s + "9" + r with r in 11..16; a specifier
\* naming another relay id of an installed slot (1917) fails validation.
C12_BackplaneSpecifiers ==
  /\ call.op = "get_analog_backplane_specifiers" =>
       /\ Range(call.ret) =
            {<<Chr[s + 1], "9", "1", Chr[r + 1]>> : s \in InstalledSlots, r \in 1..6}
       /\ Len(call.ret) = 6 * Cardinality(InstalledSlots)
  /\ (call.op = "_validator" /\ \E i \in 1..Len(call.elems) : call.elems[i] = t_1917)
       => call.result = "False"

\* C12 happens: with a card in slot 1 only, the six relays 1911..1916 are returned
C12_Witness ==
  /\ call.op = "get_analog_backplane_specifiers"
  /\ InstalledSlots = {1}
  /\ call.ret = << <<"1", "9", "1", "1">>, <<"1", "9", "1", "2">>, <<"1", "9", "1", "3">>,
                   <<"1", "9", "1", "4">>, <<"1", "9", "1", "5">>, <<"1", "9", "1", "6">> >>

\* the matrix channels of the card that goes into slot s: slot, row, two-digit
\* column
ChannelOf(s, r, c) == <<Chr[s + 1], Chr[r + 1], "0", Chr[c + 1]>>

ChannelsOf(s) ==
  {ChannelOf(s, r, c) : r \in 1..CardFor(s).rows, c \in 1..CardFor(s).cols}

\* the tokens of slot s: its channels, the ranges between two of them, its name
\* and its six analog backplane relays
TokensOf(s) ==
  ChannelsOf(s)
  \cup {ChannelOf(s, r1, c1) \o <<":">> \o ChannelOf(s, r2, c2) :
          r1, r2 \in 1..CardFor(s).rows, c1, c2 \in 1..CardFor(s).cols}
  \cup {s_slot \o <<Chr[s + 1]>>}
  \cup {<<Chr[s + 1], "9", "1", Chr[r + 1]>> : r \in 1..6}

\* the ranges a:b of slot s with a before b
ProperRange(s, tok) ==
  \E r1, r2 \in 1..CardFor(s).rows, c1, c2 \in 1..CardFor(s).cols :
     /\ tok = ChannelOf(s, r1, c1) \o <<":">> \o ChannelOf(s, r2, c2)
     /\ (r1 < r2 \/ (r1 = r2 /\ c1 < c2))

\* C13: every validation asks the instrument for its inventory again, and accepts
\* a token of a slot (a channel, a range of two of its channels in order, its
\* name, one of its backplane relays) exactly when that slot reports a card at the
\* time of the call.
C13_TokensFollowInventory ==
  call.op = "_validator" =>
    /\ SubSeq(call.sent, 1, NumSlots) = get_switch_cards_io
    /\ \A s \in UsedSlots :
         (/\ Len(call.elems) = 1
          /\ call.elems[1] \in TokensOf(s)
          /\ (Find(call.elems[1], ":", 1) = 0 \/ ProperRange(s, call.elems[1])))
         => (call.result = "True" <=> s \in InstalledSlots)

\* the elements of get_channels() that belong to the slot written as the digit d
ChannelsOnSlot(d) == SelectSeq(get_channels, LAMBDA ch : ch[1] = d)

\* C14: get_channels_by_slot(s) returns, for an installed slot s and whatever
\* cards the other slots hold, exactly the elements of get_channels() that belong
\* to slot s, in the same order; for a slot that is not installed it raises
\* Keithley3706AUnknownOrEmptySlot.
C14_ChannelsBySlot ==
  call.op = "get_channels_by_slot" =>
    IF SlotNo(call.val) \in InstalledSlots
    THEN call.result = "ok" /\ call.ret = ChannelsOnSlot(call.val[1])
    ELSE call.result = UnknownOrEmptySlot

\* C15: every channel range a:b that _validator accepts has both endpoints among
\* get_channels(), on the same slot.
C15_RangesAreReal ==
  (call.op = "_validator" /\ call.result = "True") =>
    \A i \in 1..Len(call.elems) :
       Find(call.elems[i], ":", 1) # 0 =>
         LET ends == Split(call.elems[i], ":")
         IN /\ Len(ends) = 2
            /\ ends[1] \in Range(get_channels)
            /\ ends[2] \in Range(get_channels)
            /\ ends[1][1] = ends[2][1]

RowOps == {"connect_row_to_columns", "disconnect_row_from_columns"}
ColumnOps == {"connect_column_to_rows", "disconnect_column_from_rows"}

\* the channels a connect call names: slot + row + two-digit column, one per
\* element of its list
NamedChannels(c) ==
  IF c.op \in RowOps
  THEN [i \in 1..Len(c.args[3]) |-> str(c.args[1]) \o str(c.args[2]) \o Col2(c.args[3][i])]
  ELSE [i \in 1..Len(c.args[3]) |-> str(c.args[1]) \o str(c.args[3][i]) \o Col2(c.args[2])]

\* the command a connect call sends for a channel
ConnectCommand(c) ==
  IF c.op \in {"connect_row_to_columns", "connect_column_to_rows"}
  THEN "channel.open" ELSE "channel.close"

\* C17: on an installed slot a connect or disconnect call that returns has
\* returned exactly one channel per element of its list, in order, each slot +
\* row + two-digit column, and has sent one command per channel in that order
\* (channel.open for connect, channel.close for disconnect); it does return when
\* the channels it names all exist. On a slot that is not installed it raises
\* Keithley3706AUnknownOrEmptySlot and sends no command.
C17_ConnectHelpers ==
  call.op \in RowOps \cup ColumnOps =>
    IF call.args[1] \notin InstalledSlots
    THEN call.result = UnknownOrEmptySlot /\ WritesOf(call) = {}
    ELSE /\ Range(NamedChannels(call)) \subseteq Range(get_channels) => call.result = "ok"
         /\ call.result = "ok" =>
              /\ call.ret = NamedChannels(call)
              /\ SelectSeq(call.sent, LAMBDA e : e[1] = "write")
                   = [i \in 1..Len(call.ret) |-> Write(ConnectCommand(call), call.ret[i])]

\* the tokens that name a slot: "allslots" and "slot1" .. "slot6"
SlotTokens == {s_allslots} \cup {s_slot \o str(i) : i \in 1..NumSlots}

CloseOps == {"close_channel", "exclusive_close", "exclusive_slot_close"}

\* C21: close_channel, exclusive_close and exclusive_slot_close called with a
\* specifier that contains a slot token ("allslots" or "slotN"), as the whole
\* specifier or as one of its comma-separated elements, raise
\* Keithley3706AInvalidValue and send no command.
C21_SlotsNeverClosed ==
  (/\ call.op \in CloseOps
   /\ \E i \in 1..Len(call.elems) : call.elems[i] \in SlotTokens)
  => call.result = InvalidValue /\ WritesOf(call) = {}

\* the operations that take a specifier
SpecifierOps ==
  {"reset_channel", "open_channel", "close_channel", "exclusive_close",
   "exclusive_slot_close", "get_closed_channels", "set_forbidden_channels",
   "get_forbidden_channels", "clear_forbidden_channels", "set_delay", "get_delay",
   "set_backplane", "get_backplane"}

\* the commands of the channel namespace, queries included
ChannelCommands ==
  {"channel.reset", "channel.open", "channel.close", "channel.exclusiveclose",
   "channel.exclusiveslotclose", "channel.getclose", "channel.setforbidden",
   "channel.getforbidden", "channel.clearforbidden", "channel.setdelay",
   "channel.getdelay", "channel.setbackplane", "channel.getbackplane"}

\* the positions of the channel commands of a call
ChannelCommandsOf(c) == {i \in 1..Len(c.sent) : c.sent[i][2] \in ChannelCommands}

\* C22, as claimed: every specifier-taking operation called with the empty
\* specifier raises Keithley3706AInvalidValue and sends no channel command.
C22_EmptyRejectedNoChannelCommand ==
  (call.op \in SpecifierOps /\ call.val = s_empty)
  => call.result = InvalidValue /\ ChannelCommandsOf(call) = {}

\* C22, amended: every specifier-taking operation called with the empty
\* specifier raises Keithley3706AInvalidValue and sends no write and no command
\* that carries the empty specifier; the one channel command sent is the
\* channel.getforbidden('allslots') query that close_channel makes before it
\* looks at its argument.
C22_EmptyRejected ==
  (call.op \in SpecifierOps /\ call.val = s_empty)
  => /\ call.result = InvalidValue
     /\ WritesOf(call) = {}
     /\ \A i \in ChannelCommandsOf(call) :
          call.op = "close_channel" /\ call.sent[i] = Ask("channel.getforbidden", s_allslots)
     /\ call.op = "close_channel" => Cardinality(ChannelCommandsOf(call)) = 1

\* C22 happens: close_channel('') has raised, with a card installed
C22_Witness ==
  /\ call.op = "close_channel"
  /\ call.val = s_empty
  /\ call.result = InvalidValue
  /\ InstalledSlots # {}

\* the analog backplane relays of a set of slots: slot digit, 9, 11 .. 16
RelaysOf(slots) ==
  {<<Chr[sl + 1], "9", "1", Chr[k + 1]>> : sl \in slots, k \in 1..6}

DelayAndBackplaneOps == {"set_delay", "get_delay", "get_backplane", "set_backplane"}

\* C23: set_delay, get_delay, get_backplane and set_backplane raise
\* Keithley3706AInvalidValue and send no channel command whenever an element
\* of val is an analog backplane relay; set_backplane sends
\* channel.setbackplane only if every element of its backplane argument is an
\* analog backplane relay of an installed slot, and raises otherwise.
C23_BackplaneRelaysRejected ==
  /\ (/\ call.op \in DelayAndBackplaneOps
      /\ \E i \in 1..Len(call.elems) : call.elems[i] \in RelaysOf(InstalledSlots))
     => call.result = InvalidValue /\ ChannelCommandsOf(call) = {}
  /\ call.op = "set_backplane" =>
       IF Range(Split(call.backplane, ",")) \subseteq RelaysOf(InstalledSlots)
       THEN \A i \in ChannelCommandsOf(call) :
              call.sent[i] = Write("channel.setbackplane", <<call.val, call.backplane>>)
       ELSE call.result = InvalidValue /\ ChannelCommandsOf(call) = {}

\* C23 happens: set_backplane('1101,1911', ...) has raised with a card in slot 1
C23_Witness ==
  /\ call.op = "set_backplane"
  /\ call.elems = <<t_1101, t_1911>>
  /\ 1 \in InstalledSlots
  /\ call.result = InvalidValue

\* C24: for every specifier made only of valid matrix channels, valid channel
\* ranges and valid analog backplane relays, close_channel raises nothing and
\* sends channel.close with the specifier verbatim.
C24_CloseAcceptsDocumented ==
  (call.op = "close_channel" /\ DocumentedForClose(call.elems))
  => /\ call.result = "ok"
     /\ call.sent[Len(call.sent)] = Write("channel.close", call.val)
     /\ Cardinality(WritesOf(call)) = 1

(***************************************************************************)
(* Properties of the scope (SpecScope)                                     *)
(***************************************************************************)
\* how often a command was sent by the call
Sent(kind, cmd) == Cardinality({i \in 1..Len(g.sent) : g.sent[i][1] = kind /\ g.sent[i][2] = cmd})

\* C2: a get_raw proceeds only if a prepare_curvedata has completed on the
\* parameter since its previous get_raw (or since construction); otherwise it
\* raises RigolDS4000TraceNotReady, sends nothing and leaves the parameter's
\* state as it was.
C2_GetRawNeedsPrepare ==
  g.op = "get_raw" =>
    /\ g.result = TraceNotReady <=> ~g.was_prepared
    /\ g.result = TraceNotReady =>
         /\ g.sent = <<>>
         /\ ~g.returned
         /\ ParamState(g.p) = g.before

\* C2 happens: the second of two get_raw calls after one preparation fails
C2_Witness ==
  /\ g.op = "get_raw"
  /\ g.result = TraceNotReady
  /\ preamble[g.p].set

BlockErrors == {Malformed, "UnicodeDecodeError"}

\* C3: in raw-memory mode, when every block read is well-formed, get_raw polls at
\* most max_read_step times, returns exactly when one of these status answers has
\* IDLE as its first field (the 50th included) and raises the communication
\* error exactly when none of the 50 has.
C3_PollingTerminates ==
  (g.op = "get_raw" /\ g.p.raw /\ g.framed) =>
    /\ g.i <= max_read_step
    /\ g.pc = "poll" => (~g.idle_seen /\ g.i < max_read_step)
    /\ (g.pc = "done" /\ g.result # TraceNotReady) =>
         /\ g.result = "ok" <=> g.idle_seen
         /\ g.result = CommError <=> (~g.idle_seen /\ g.i = max_read_step)

\* C5: the array get_raw returns has one element per accumulated byte, element i
\* being (b[i] - yreference - yorigin) * yincrement with b[i] in 0..255.
C5_Conversion ==
  (g.op = "get_raw" /\ g.returned) =>
    /\ Len(g.ret) = Len(g.data_bin)
    /\ \A i \in 1..Len(g.data_bin) :
         /\ g.data_bin[i] \in 0..255
         /\ g.ret[i] = (g.data_bin[i] - preamble[g.p].yreference - preamble[g.p].yorigin)
                         * preamble[g.p].yincrement

\* C5 happens: two bytes, one of them above 127, are converted
C5_Witness ==
  /\ g.op = "get_raw"
  /\ g.returned
  /\ Len(g.ret) = 2
  /\ \E i \in 1..2 : g.data_bin[i] > 127

\* C6: when a received block fails framing validation, or the loop is used up
\* without IDLE, get_raw raises, returns nothing, and asks for no further block:
\* the read of the failing block, or of the 50th block, is the last thing it did.
C6_NoPartialDataNoRetry ==
  (/\ g.op = "get_raw"
   /\ \/ g.rejected
      \/ (g.p.raw /\ g.i = max_read_step /\ ~g.idle_seen))
  => /\ g.pc = "done"
     /\ g.result \in BlockErrors \cup {CommError}
     /\ ~g.returned
     /\ g.ret = <<>>
     /\ g.sent[Len(g.sent)] = ReadRaw
     /\ Sent("write", ":WAVeform:DATA?") = (IF g.p.raw THEN g.i ELSE 1)
     /\ Sent("write", ":WAVeform:END") = 0

\* C6 happens: a block is rejected after a byte had been accumulated
C6_Witness ==
  /\ g.op = "get_raw"
  /\ g.rejected
  /\ g.p.raw
  /\ Len(g.data_bin) > 0

\* C16: each completed prepare_curvedata has sent its mode command(s) and then
\* exactly one :WAVeform:PREamble? before the trace is ready, and the parameter
\* holds the answer to that query; the get_raw that follows converts with the
\* yreference, yorigin and yincrement of the most recent answer and, in raw-memory
\* mode, asks for its point count.
C16_PreambleRefetched ==
  /\ (g.op = "prepare_curvedata" /\ g.result = "ok") =>
       /\ g.sent = prepare_writes(g.p) \o <<SAsk(":WAVeform:PREamble?")>>
       /\ trace_ready[g.p]
       /\ preamble[g.p] = PreambleNT(fetched[g.p])
       /\ shape[g.p] = fetched[g.p][3]
  /\ (g.op = "get_raw" /\ g.returned) =>
       \A i \in 1..Len(g.ret) :
          g.ret[i] = (g.data_bin[i] - fetched[g.p][10] - fetched[g.p][9]) * fetched[g.p][8]
  /\ (g.op = "get_raw" /\ g.p.raw /\ g.result # TraceNotReady) =>
       SWrite(":WAVeform:POINts", fetched[g.p][3]) \in Range(g.sent)

\* C16 happens: a preparation replaces the preamble of an earlier one
C16_Witness ==
  /\ g.op = "prepare_curvedata"
  /\ g.result = "ok"
  /\ g.before[2].set
  /\ g.before[2] # preamble[g.p]

\* what one iteration of the raw-memory loop sends: the status query, the request
\* for the block, the raw read
OneIteration == <<SAsk(":WAVeform:STATus?"), SWrite(":WAVeform:DATA?", 0), ReadRaw>>

Iterations(n) == [k \in 1..(3 * n) |-> OneIteration[((k - 1) % 3) + 1]]

\* C18: a raw-memory preparation sends :STOP, :WAVeform:MODE RAW,
\* :WAVeform:PREamble?, in this order; the get_raw that follows it sends
\* :WAVeform:FORMat BYTE, :WAVeform:SOURce CHAN<n>, :WAVeform:POINts with the
\* points of that preamble, :WAVeform:RESet, :WAVeform:BEGin, and then per
\* iteration :WAVeform:STATus?, :WAVeform:DATA? and one raw read, the status
\* always before the data request; a successful get_raw ends with :WAVeform:END.
C18_RawCommandOrder ==
  /\ (g.op = "prepare_curvedata" /\ g.p.raw) =>
       g.sent = <<SWrite(":STOP", 0), SWrite(":WAVeform:MODE RAW", 0),
                  SAsk(":WAVeform:PREamble?")>>
  /\ (g.op = "get_raw" /\ g.p.raw /\ g.result # TraceNotReady) =>
       /\ g.was_prepared
       /\ g.sent =
            <<SWrite(":WAVeform:FORMat BYTE", 0),
              SWrite(":WAVeform:SOURce CHAN", g.p.channel),
              SWrite(":WAVeform:POINts", fetched[g.p][3]),
              SWrite(":WAVeform:RESet", 0), SWrite(":WAVeform:BEGin", 0)>>
            \o Iterations(g.i)
            \o (IF g.result = "ok" THEN <<SWrite(":WAVeform:END", 0)>> ELSE <<>>)

\* C18 happens: a raw-memory get_raw returns after two iterations
C18_Witness ==
  /\ g.op = "get_raw"
  /\ g.p.raw
  /\ g.result = "ok"
  /\ g.i = 2

\* C19: a display-mode get_raw that passes the readiness check sends the format,
\* the source, one :WAVeform:DATA? and one raw read, and nothing else: no
\* :WAVeform:STATus?, :WAVeform:POINts, :WAVeform:RESet, :WAVeform:BEGin or
\* :WAVeform:END; its preparation sends :WAVeform:MODE NORM and :WAVeform:PREamble?
\* and never :STOP.
C19_DisplayProtocol ==
  /\ (g.op = "get_raw" /\ ~g.p.raw /\ g.result # TraceNotReady) =>
       g.sent = <<SWrite(":WAVeform:FORMat BYTE", 0),
                  SWrite(":WAVeform:SOURce CHAN", g.p.channel),
                  SWrite(":WAVeform:DATA?", 0), ReadRaw>>
  /\ (g.op = "prepare_curvedata" /\ ~g.p.raw) =>
       g.sent = <<SWrite(":WAVeform:MODE NORM", 0), SAsk(":WAVeform:PREamble?")>>

\* C19 happens: a display-mode get_raw returns the two bytes of its one block
C19_Witness ==
  /\ g.op = "get_raw"
  /\ ~g.p.raw
  /\ g.returned
  /\ Len(g.ret) = 2

\* C20: a get_raw that passed the readiness check and then failed on a block or
\* with the communication error leaves the parameter not ready, with no
\* preparation to its credit; and a get_raw with no preparation completed since
\* the previous get_raw raises RigolDS4000TraceNotReady.
C20_FlagConsumedByAttempt ==
  /\ (g.op = "get_raw" /\ g.result \in BlockErrors \cup {CommError}) =>
       /\ g.before[1]
       /\ ~trace_ready[g.p]
       /\ ~prepared[g.p]
  /\ (g.op = "get_raw" /\ ~g.was_prepared) => g.result = TraceNotReady

\* C20 happens: the read gave up after fifty polls and the flag is gone
C20_Witness ==
  /\ g.op = "get_raw"
  /\ g.result = CommError
  /\ ~trace_ready[g.p]

\* C25: ':WAVeform:END' is written exactly once by a raw-memory get_raw that
\* completes successfully, as its last command, after the block of the
\* iteration whose status was IDLE has been read, validated and appended; a
\* get_raw that fails or is still polling, and a display-mode get_raw, have
\* not written it.
C25_EndWrittenOnce ==
  g.op = "get_raw" =>
    IF g.p.raw /\ g.result = "ok"
    THEN /\ Sent("write", ":WAVeform:END") = 1
         /\ g.sent[Len(g.sent)] = SWrite(":WAVeform:END", 0)
         /\ SubSeq(g.sent, Len(g.sent) - 3, Len(g.sent) - 1) = OneIteration
         /\ g.idle_seen
         /\ ~g.rejected
         /\ g.returned /\ g.ret = convert(g.data_bin, preamble[g.p])
    ELSE Sent("write", ":WAVeform:END") = 0

\* C25 happens: a raw-memory get_raw has succeeded on its second iteration
C25_Witness ==
  /\ g.op = "get_raw"
  /\ g.p.raw
  /\ g.result = "ok"
  /\ g.i = 2
  /\ Len(g.data_bin) = 2

\* the waveform mode prepare_curvedata writes for a parameter
ModeOf(p) == IF p.raw THEN "RAW" ELSE "NORM"

\* C26: whenever a get_raw has passed its readiness check, the waveform mode
\* most recently written to the instrument is the mode of its parameter
\* (RAW for a raw parameter, NORM for a display parameter).
C26_ModeOfTheParameter ==
  (g.op = "get_raw" /\ g.result # TraceNotReady) => wmode = ModeOf(g.p)

\* C27: the array a successful get_raw returns has exactly shape[0] elements,
\* the point count fixed by the preceding prepare_curvedata (and, in raw mode,
\* requested with ':WAVeform:POINts'), whatever blocks the instrument delivers.
C27_ReturnedLengthIsShape ==
  (g.op = "get_raw" /\ g.returned) =>
    /\ Len(g.ret) = shape[g.p]
    /\ g.p.raw => SWrite(":WAVeform:POINts", Len(g.ret)) \in Range(g.sent)

(***************************************************************************)
(* Properties of the block framing (SpecBlock)                             *)
(***************************************************************************)
\* C4: the block "#9" + nine digits of len(P) + P + trailing whitespace is
\* accepted and P returned unchanged, for every payload P; a block whose declared
\* length differs from the length of P raises ValueError('Malformed data').
C4_RoundTrip ==
  blk.done =>
    IF blk.declared = Len(blk.payload)
    THEN blk.result = "ok" /\ blk.data = blk.payload
    ELSE blk.result = Malformed

====
